---- MODULE Spec2Model ----
(***************************************************************************)
(* pyvoro/__init__.py: compute_2d_voronoi, the 2D front end that runs the  *)
(* 3D engine (voroplusplus.compute_voronoi) on a thin slab and strips the  *)
(* z dimension from every cell it returns.                                 *)
(*                                                                         *)
(* Python lists are sequences; Python indices are 0-based and are kept     *)
(* 0-based wherever the program stores them (vertex ids, face vertices,    *)
(* adjacency), so At(s, i) is s[i] of the source.  Floats are modelled as  *)
(* integers, and the one division of the program as an exact fraction.     *)
(***************************************************************************)
EXTENDS Integers, Sequences, FiniteSets, TLC

VARIABLES
    pc,                 \* "idle" | "entry" | "engine" | "loop" | "done" | "error"
    caller,             \* the argument objects the caller owns and passes in
    radii_default,      \* the list object of the default radii=[]
    periodic_default,   \* the list object of the default periodic=[False]*2
    vector_class,       \* local of compute_2d_voronoi (line 69)
    points3d,           \* local (line 71)
    limits3d,           \* local (line 72)
    radii,              \* the parameter radii as passed on to the engine
    periodic,           \* local periodic after its rebinding at line 73
    py_cells3d,         \* the engine's answer (line 75)
    py_cells,           \* the list being built (line 82)
    depth,              \* local (line 83)
    idx,                \* number of cells of py_cells3d the for loop has consumed
    returned,           \* the list the caller receives, <<>> before a return
    raised,             \* the exception that ended the call, "" if none
    engine_log,         \* every (arguments, answer) pair the engine has produced
    call_log            \* every (arguments, outcome) pair of a finished call

vars == <<pc, caller, radii_default, periodic_default, vector_class, points3d,
          limits3d, radii, periodic, py_cells3d, py_cells, depth, idx,
          returned, raised, engine_log, call_log>>

(***************************************************************************)
(* Bounds of the model.                                                    *)
(***************************************************************************)
MaxSites == 2      \* most sites of one call
MaxFaces == 4      \* most faces of a 3D cell when the neighbour ids vary
LoopFaces == 3     \* most faces of a 3D cell when the vertex loops vary
MaxVid == 4        \* vertex ids 0 .. MaxVid-1 when the vertex loops vary
MaxLoop == 3       \* longest vertex loop when the vertex loops vary
MaxVol == 3        \* 3D cell volumes 1 .. MaxVol
MaxH == 2          \* half heights 1 .. MaxH

(***************************************************************************)
(* Python list primitives.                                                 *)
(***************************************************************************)
At(s, i) == s[i + 1]

In(x, s) == \E k \in 1..Len(s) : s[k] = x

\* list.index: position of the first occurrence
Index(s, x) == (CHOOSE k \in 1..Len(s) : s[k] = x /\ \A j \in 1..(k - 1) : s[j] # x) - 1

\* s[:-1]
ButLast(s) == SubSeq(s, 1, Len(s) - 1)

(***************************************************************************)
(* Input elements.  A point is a plain list or an instance of a vector     *)
(* class that carries a user payload besides its coordinates.              *)
(***************************************************************************)
NoPayload == "none"

Point(cls, coords, payload) == [cls |-> cls, coords |-> coords, payload |-> payload]

\* list(p): the coordinates, as a plain list
ListOf(p) == p.coords

\* voroplusplus.get_constructor(obj): the type of obj
get_constructor(obj) == obj.cls

\* vector_class(coords): a new instance built from coordinates alone
Construct(cls, coords) == Point(cls, coords, NoPayload)

(***************************************************************************)
(* Lines 69-73 and 83: the arguments handed to the engine.                 *)
(***************************************************************************)
\* line 71: points3d = [p[:] + [0.] for p in points], after points = [list(p) ...]
Points3d(points) == [k \in 1..Len(points) |-> ListOf(points[k]) \o <<0>>]

\* line 72: limits3d = [l[:] for l in limits] + [[-z_height, +z_height]]
Limits3d(limits, z_height) == limits \o << <<0 - z_height, z_height>> >>

\* line 73: periodic = periodic + [False].  value is what the local name is bound
\* to afterwards, object is the list object the parameter was bound to before.
PeriodicInPlace(p) == [value |-> p \o <<FALSE>>, object |-> p \o <<FALSE>>]

PeriodicPlus(p) == [value |-> p \o <<FALSE>>, object |-> p]

\* line 83: depth = z_height * 2
DepthHalf(z_height) == z_height

Depth(z_height) == z_height * 2

(***************************************************************************)
(* Line 103: p3d['volume'] / depth, as the fraction <<num, den>> in lowest *)
(* terms (den > 0).                                                        *)
(***************************************************************************)
RECURSIVE GCD(_, _)
GCD(a, b) == IF b = 0 THEN a ELSE GCD(b, a % b)

Div(a, b) == LET g == GCD(a, b) IN <<a \div g, b \div g>>

(***************************************************************************)
(* Lines 85-111: one 3D cell reduced to a 2D cell.                         *)
(***************************************************************************)
\* line 86: faces_to = [f['adjacent_cell'] for f in p3d['faces']]
FacesTo(p3d) == [k \in 1..Len(p3d.faces) |-> p3d.faces[k].adjacent_cell]

\* line 87: assert(-5 in faces_to and -6 in faces_to)
PrismAssertLower(p3d) == In(-5, FacesTo(p3d))

PrismAssert(p3d) == In(-5, FacesTo(p3d)) /\ In(-6, FacesTo(p3d))

\* line 88: vertices_to_keep = p3d['faces'][faces_to.index(-5)]['vertices']
VerticesToKeep(p3d) == At(p3d.faces, Index(FacesTo(p3d), -5)).vertices

\* line 92: the faces the loop skips
SkipsOnlyLower(f) == f.adjacent_cell = -5

Skipped(f) == f.adjacent_cell = -5 \/ f.adjacent_cell = -6

\* line 96: [vertices_to_keep.index(vid) for vid in f['vertices'] if vid in vertices_to_keep]
Project(loop, keep) ==
    LET kept == SelectSeq(loop, LAMBDA vid : In(vid, keep))
    IN  [k \in 1..Len(kept) |-> Index(keep, kept[k])]

\* lines 90-97
Faces2d(p3d) ==
    LET keep == VerticesToKeep(p3d)
        side == SelectSeq(p3d.faces, LAMBDA f : ~Skipped(f))
    IN  [k \in 1..Len(side) |->
            [adjacent_cell |-> side[k].adjacent_cell,
             vertices |-> Project(side[k].vertices, keep)]]

\* lines 106-109: adj, for n = len(vertices_to_keep)
Adjacency(n) ==
    << <<n - 1, 1>> >>
    \o (IF n - 2 >= 1 THEN [i \in 1..(n - 2) |-> <<i - 1, i + 1>>] ELSE << >>)
    \o << <<n - 2, 0>> >>

\* lines 99-104 and 111: the dict appended to py_cells
Cell2d(p3d, vc, d) ==
    LET keep == VerticesToKeep(p3d)
    IN  [faces |-> Faces2d(p3d),
         original |-> Construct(vc, ButLast(p3d.original)),
         vertices |-> [k \in 1..Len(keep) |->
                          Construct(vc, ButLast(At(p3d.vertices, keep[k])))],
         volume |-> Div(p3d.volume, d),
         adjacency |-> Adjacency(Len(keep))]

\* line 99: py_cells.append(...)
PrependCell(cells, c) == <<c>> \o cells

AppendCell(cells, c) == Append(cells, c)

(***************************************************************************)
(* The engine, voroplusplus.compute_voronoi (line 75): one cell per site,  *)
(* in the order of the sites, each echoing the site it was computed for.   *)
(* The topology and the volume of a cell are the engine's choice.          *)
(***************************************************************************)
Face(a, loop) == [adjacent_cell |-> a, vertices |-> loop]

Shape(faces, volume) == [faces |-> faces, volume |-> volume]

SeqsUpTo(S, n) == UNION {[1..k -> S] : k \in 0..n}

\* the vertex positions of a cell: one per vertex id its faces use
EngineVertices(faces) ==
    LET used == UNION {{faces[k].vertices[j] : j \in 1..Len(faces[k].vertices)} :
                            k \in 1..Len(faces)}
        n == IF used = {} THEN 0 ELSE 1 + CHOOSE m \in used : \A v \in used : v <= m
    IN  [v \in 1..n |-> <<v - 1, (v - 1) * (v - 1), 0>>]

EngineCell(shape, site) ==
    [faces |-> shape.faces,
     original |-> site,
     vertices |-> EngineVertices(shape.faces),
     volume |-> shape.volume]

EngineOutputs(Shapes, sites) ==
    {[k \in 1..Len(sites) |-> EngineCell(sh[k], sites[k])] :
        sh \in [1..Len(sites) -> Shapes]}

(***************************************************************************)
(* The state before any call.                                              *)
(***************************************************************************)
Args(points, limits, radii_given, rad, periodic_given, per, z_height) ==
    [points |-> points, limits |-> limits, dispersion |-> 1,
     radii_given |-> radii_given, radii |-> rad,
     periodic_given |-> periodic_given, periodic |-> per,
     z_height |-> z_height]

NoArgs == Args(<<>>, <<>>, FALSE, <<>>, FALSE, <<>>, 1)

Init ==
    /\ pc = "idle"
    /\ caller = NoArgs
    /\ radii_default = <<>>
    /\ periodic_default = <<FALSE, FALSE>>
    /\ vector_class = ""
    /\ points3d = <<>>
    /\ limits3d = <<>>
    /\ radii = <<>>
    /\ periodic = <<>>
    /\ py_cells3d = <<>>
    /\ py_cells = <<>>
    /\ depth = 0
    /\ idx = 0
    /\ returned = <<>>
    /\ raised = ""
    /\ engine_log = {}
    /\ call_log = {}

locals == <<vector_class, points3d, limits3d, radii, periodic, py_cells3d,
            py_cells, depth, idx>>

Outcome(ret, exc) == [input |-> caller, returned |-> ret, raised |-> exc]

(***************************************************************************)
(* compute_2d_voronoi(points, limits, dispersion, radii, periodic,         *)
(* z_height), line 39: the call binds the parameters.                      *)
(***************************************************************************)
Call(Inputs) ==
    /\ pc = "idle"
    /\ \E c \in Inputs : caller' = c
    /\ pc' = "entry"
    /\ returned' = <<>>
    /\ raised' = ""
    /\ UNCHANGED <<radii_default, periodic_default, locals, engine_log, call_log>>

\* lines 69-73, up to the call of the engine
Prepare ==
    /\ pc = "entry"
    /\ IF Len(caller.points) = 0
       THEN \* points[0] of an empty list
            /\ pc' = "error"
            /\ raised' = "IndexError"
            /\ UNCHANGED <<caller, periodic_default, locals>>
       ELSE LET bound == IF caller.periodic_given THEN caller.periodic
                         ELSE periodic_default
                pp == PeriodicPlus(bound)
            IN  /\ vector_class' = get_constructor(At(caller.points, 0))
                /\ points3d' = Points3d(caller.points)
                /\ limits3d' = Limits3d(caller.limits, caller.z_height)
                /\ radii' = IF caller.radii_given THEN caller.radii ELSE radii_default
                /\ periodic' = pp.value
                /\ IF caller.periodic_given
                   THEN /\ caller' = [caller EXCEPT !.periodic = pp.object]
                        /\ UNCHANGED periodic_default
                   ELSE /\ periodic_default' = pp.object
                        /\ UNCHANGED caller
                /\ pc' = "engine"
                /\ UNCHANGED <<py_cells3d, py_cells, depth, idx, raised>>
    /\ UNCHANGED <<radii_default, returned, engine_log, call_log>>

EngineArgs ==
    [points |-> points3d, limits |-> limits3d, dispersion |-> caller.dispersion,
     radii |-> radii, periodic |-> periodic]

\* lines 75-83: the engine answers (the same answer for the same arguments)
EngineReturn(Shapes) ==
    /\ pc = "engine"
    /\ \E out \in EngineOutputs(Shapes, points3d) :
        /\ \A e \in engine_log : e.args = EngineArgs => e.cells = out
        /\ py_cells3d' = out
        /\ engine_log' = engine_log \cup {[args |-> EngineArgs, cells |-> out]}
    /\ py_cells' = <<>>
    /\ depth' = Depth(caller.z_height)
    /\ idx' = 0
    /\ pc' = "loop"
    /\ UNCHANGED <<caller, radii_default, periodic_default, vector_class, points3d,
                   limits3d, radii, periodic, returned, raised, call_log>>

\* lines 85-111: one iteration of  for p3d in py_cells3d
Step ==
    /\ pc = "loop"
    /\ idx < Len(py_cells3d)
    /\ LET p3d == At(py_cells3d, idx)
       IN  IF PrismAssert(p3d)
           THEN /\ py_cells' = AppendCell(py_cells, Cell2d(p3d, vector_class, depth))
                /\ idx' = idx + 1
                /\ UNCHANGED <<pc, raised>>
           ELSE /\ pc' = "error"
                /\ raised' = "AssertionError"
                /\ UNCHANGED <<py_cells, idx>>
    /\ UNCHANGED <<caller, radii_default, periodic_default, vector_class, points3d,
                   limits3d, radii, periodic, py_cells3d, depth, returned,
                   engine_log, call_log>>

\* line 113: return py_cells
Return ==
    /\ pc = "loop"
    /\ idx = Len(py_cells3d)
    /\ returned' = py_cells
    /\ pc' = "done"
    /\ UNCHANGED <<caller, radii_default, periodic_default, locals, raised,
                   engine_log, call_log>>

\* the caller has consumed the outcome and the frame of the call is dropped; the
\* function can be called again
Finish ==
    /\ pc \in {"done", "error"}
    /\ pc' = "idle"
    /\ caller' = NoArgs
    /\ returned' = <<>>
    /\ raised' = ""
    /\ vector_class' = ""
    /\ points3d' = <<>>
    /\ limits3d' = <<>>
    /\ radii' = <<>>
    /\ periodic' = <<>>
    /\ py_cells3d' = <<>>
    /\ py_cells' = <<>>
    /\ depth' = 0
    /\ idx' = 0
    /\ call_log' = call_log \cup {Outcome(returned, raised)}
    /\ UNCHANGED <<radii_default, periodic_default, engine_log>>

(***************************************************************************)
(* Inputs and engine answers the specifications draw from.                 *)
(***************************************************************************)
UnitBox == << <<0, 1>>, <<0, 1>> >>

WideBox == << <<0, 2>>, <<0, 1>> >>

Coords == {<<0, 0>>, <<1, 0>>}

Points == {Point("list", c, NoPayload) : c \in Coords}
          \cup {Point("Vec", c, pl) : c \in Coords, pl \in {NoPayload, "tag"}}

\* a triangular prism between the walls -5 and -6
Lower == Face(-5, <<0, 1, 2>>)

Upper == Face(-6, <<3, 4, 5>>)

SideA == Face(-1, <<0, 1, 4, 3>>)

SideB == Face(1, <<1, 2, 5, 4>>)

SideC == Face(-3, <<2, 0, 3, 5>>)

Prism(volume) == Shape(<<SideA, Lower, SideB, Upper, SideC>>, volume)

\* cells that do and do not reach the two z walls
WallShapes == {Prism(2),
               Shape(<<SideA, SideB, Upper, SideC>>, 2),
               Shape(<<SideA, Lower, SideB, SideC>>, 2)}

MainInputs ==
    {Args(pts, UnitBox, FALSE, <<>>, FALSE, <<>>, 1) : pts \in SeqsUpTo(Points, MaxSites)}

\* cells of every volume, sites told apart by their position
SiteAt(k) == Point("list", <<k, 0>>, NoPayload)

VolumeShapes == {Prism(v) : v \in 1..MaxVol}

VolumeInputs ==
    {Args([k \in 1..n |-> SiteAt(k)], box, FALSE, <<>>, FALSE, <<>>, h) :
        n \in 0..MaxSites, box \in {UnitBox, WideBox}, h \in 1..MaxH}

\* cells whose faces are any sequence of neighbours and walls
FaceTo(a) ==
    CASE a = -5 -> Lower
      [] a = -6 -> Upper
      [] OTHER -> Face(a, <<0, 1, 4, 3>>)

NeighbourIds == {-6, -5, -1, 0, 1}

NeighbourShapes == {Shape(fs, 2) : fs \in SeqsUpTo({FaceTo(a) : a \in NeighbourIds}, MaxFaces)}

\* cells whose faces carry any run of vertex ids as their loop
Runs == {[k \in 1..n |-> a + k - 1] : a \in 0..(MaxVid - 1), n \in 0..MaxLoop}

Loops == {l \in Runs : \A k \in 1..Len(l) : l[k] < MaxVid}

LoopShapes == {Shape(fs, 2) : fs \in SeqsUpTo({Face(a, l) : a \in {-6, -5, 0}, l \in Loops},
                                             LoopFaces)}

OneSite == {Args(<<SiteAt(0)>>, UnitBox, FALSE, <<>>, FALSE, <<>>, 1),
            Args(<<>>, UnitBox, FALSE, <<>>, FALSE, <<>>, 1)}

\* repeated calls, with and without the default arguments
RepeatInputs ==
    {Args(<<p>>, UnitBox, rg, IF rg THEN <<1>> ELSE <<>>,
          pg, IF pg THEN <<TRUE, FALSE>> ELSE <<>>, 1) :
        p \in {Point("Vec", <<1, 0>>, "tag")}, rg \in BOOLEAN, pg \in BOOLEAN}
    \cup {Args(<<>>, UnitBox, FALSE, <<>>, FALSE, <<>>, 1)}

(***************************************************************************)
(* Specifications.                                                         *)
(***************************************************************************)
Next ==
    \/ Call(MainInputs)
    \/ Prepare
    \/ EngineReturn(WallShapes)
    \/ Step
    \/ Return

Spec == Init /\ [][Next]_vars

NextVolume ==
    \/ Call(VolumeInputs)
    \/ Prepare
    \/ EngineReturn(VolumeShapes)
    \/ Step
    \/ Return

SpecVolume == Init /\ [][NextVolume]_vars

NextNeighbours ==
    \/ Call(OneSite)
    \/ Prepare
    \/ EngineReturn(NeighbourShapes)
    \/ Step
    \/ Return

SpecNeighbours == Init /\ [][NextNeighbours]_vars

NextLoops ==
    \/ Call(OneSite)
    \/ Prepare
    \/ EngineReturn(LoopShapes)
    \/ Step
    \/ Return

SpecLoops == Init /\ [][NextLoops]_vars

NextRepeat ==
    \/ Call(RepeatInputs)
    \/ Prepare
    \/ EngineReturn(WallShapes)
    \/ Step
    \/ Return
    \/ Finish

SpecRepeat == Init /\ [][NextRepeat]_vars

(***************************************************************************)
(* Properties.                                                             *)
(***************************************************************************)
HasFaceTo(p3d, a) == \E k \in 1..Len(p3d.faces) : p3d.faces[k].adjacent_cell = a

LoopOfFaceTo(p3d, a) ==
    p3d.faces[CHOOSE k \in 1..Len(p3d.faces) :
                  /\ p3d.faces[k].adjacent_cell = a
                  /\ \A j \in 1..(k - 1) : p3d.faces[j].adjacent_cell # a].vertices

SharesNoVertex(l1, l2) == \A i \in 1..Len(l1) : \A j \in 1..Len(l2) : l1[i] # l2[j]

IsPrismatic(p3d) ==
    /\ HasFaceTo(p3d, -5)
    /\ HasFaceTo(p3d, -6)
    /\ SharesNoVertex(LoopOfFaceTo(p3d, -5), LoopOfFaceTo(p3d, -6))

\* C1: a result is returned only if every 3D cell of the engine has a face to
\* wall -5 and a face to wall -6 and the vertex loops of the two share no vertex;
\* otherwise the call fails.
C1_PrismAssumptionVerified ==
    pc = "done" => \A k \in 1..Len(py_cells3d) : IsPrismatic(py_cells3d[k])

\* C2: a call that succeeds returns exactly one cell per input site, and the
\* k-th returned cell is the one of the k-th input point.
C2_SameOrderAsInput ==
    pc = "done" =>
        /\ Len(returned) = Len(caller.points)
        /\ \A k \in 1..Len(returned) :
              returned[k].original.coords = caller.points[k].coords

C2_Witness ==
    /\ pc = "done"
    /\ Len(returned) = 2
    /\ caller.points[1].coords # caller.points[2].coords

\* C3: in every returned cell with n vertices, adjacency has n entries and entry
\* i is [(i-1) mod n, (i+1) mod n], for every n including 0, 1 and 2.
C3_AdjacencyIsCycle ==
    pc = "done" =>
        \A k \in 1..Len(returned) :
            LET n == Len(returned[k].vertices)
            IN  /\ Len(returned[k].adjacency) = n
                /\ \A i \in 0..(n - 1) :
                      At(returned[k].adjacency, i) = <<(i - 1 + n) % n, (i + 1) % n>>

\* C4: every face of every returned cell has exactly 2 vertex entries, each an
\* index into the cell's own 2D vertex list.
C4_EdgesHaveTwoVertices ==
    pc = "done" =>
        \A k \in 1..Len(returned) :
            \A j \in 1..Len(returned[k].faces) :
                LET vs == returned[k].faces[j].vertices
                IN  /\ Len(vs) = 2
                    /\ \A i \in 1..Len(vs) :
                          vs[i] >= 0 /\ vs[i] < Len(returned[k].vertices)

\* C5: 'original' of the k-th returned cell is the k-th input element unchanged,
\* payload included.
C5_OriginalEchoed ==
    pc = "done" =>
        \A k \in 1..Len(returned) :
            k <= Len(caller.points) => returned[k].original = caller.points[k]

\* sums over a list of cells
RECURSIVE SumVolume3d(_)
SumVolume3d(cells) ==
    IF cells = <<>> THEN 0 ELSE cells[1].volume + SumVolume3d(Tail(cells))

\* the sum of the fractions, as <<num, den>>
RECURSIVE SumArea(_)
SumArea(cells) ==
    IF cells = <<>> THEN <<0, 1>>
    ELSE LET a == cells[1].volume
             r == SumArea(Tail(cells))
         IN  <<a[1] * r[2] + r[1] * a[2], a[2] * r[2]>>

BoxArea(limits) == (limits[1][2] - limits[1][1]) * (limits[2][2] - limits[2][1])

\* C6: the area of every returned cell is the volume of its 3D cell divided by
\* 2 * z_height, so when the 3D volumes sum to the volume of the slab the areas
\* sum to the area of the 2D box.
C6_AreaIsVolumeOverDepth ==
    pc = "done" =>
        /\ Len(returned) = Len(py_cells3d)
        /\ \A k \in 1..Len(returned) :
              returned[k].volume[1] * (2 * caller.z_height)
                  = py_cells3d[k].volume * returned[k].volume[2]
        /\ SumVolume3d(py_cells3d) = BoxArea(caller.limits) * (2 * caller.z_height)
              => SumArea(returned)[1] = BoxArea(caller.limits) * SumArea(returned)[2]

C6_Witness ==
    /\ pc = "done"
    /\ Len(returned) = 2
    /\ caller.z_height = 2
    /\ py_cells3d[1].volume = 1
    /\ SumVolume3d(py_cells3d) = BoxArea(caller.limits) * (2 * caller.z_height)

\* C7: every returned cell has as many vertices as faces (edges).
C7_VerticesEqualEdges ==
    pc = "done" =>
        \A k \in 1..Len(returned) :
            Len(returned[k].vertices) = Len(returned[k].faces)

\* C8: the caller receives a list only when every 3D cell passed the check of
\* the two z walls; if any cell, at any position, fails it, the loop never gets
\* past that cell, the call ends in an error and nothing is returned.
C8_AllOrNothing ==
    /\ pc # "done" => returned = <<>>
    /\ pc = "done" =>
          /\ Len(returned) = Len(py_cells3d)
          /\ \A k \in 1..Len(py_cells3d) :
                HasFaceTo(py_cells3d[k], -5) /\ HasFaceTo(py_cells3d[k], -6)
    /\ pc = "loop" =>
          \A k \in 1..idx :
              HasFaceTo(py_cells3d[k], -5) /\ HasFaceTo(py_cells3d[k], -6)
    /\ raised = "AssertionError" => pc = "error"

C8_Witness ==
    /\ pc = "error"
    /\ raised = "AssertionError"
    /\ Len(py_cells) = 1
    /\ Len(py_cells3d) = 2
    /\ returned = <<>>

\* C9: the wrapper keeps no state between calls: the default argument objects
\* stay radii=[] and periodic=[False]*2, the caller's argument objects are not
\* changed during a call, and a call ends as every earlier call with the same
\* arguments ended (the engine answering the same arguments the same way).
C9_SameOutcome ==
    /\ radii_default = <<>>
    /\ periodic_default = <<FALSE, FALSE>>
    /\ pc \in {"done", "error"} =>
          \A l \in call_log :
              l.input = caller => l.returned = returned /\ l.raised = raised

C9_Repeatable ==
    /\ []C9_SameOutcome
    /\ [][pc # "idle" /\ pc' # "idle" => caller' = caller]_vars

C9_Witness ==
    /\ pc = "done"
    /\ Len(returned) = 1
    /\ ~caller.periodic_given
    /\ ~caller.radii_given
    /\ \E l \in call_log : l.input = caller /\ l.returned = returned
    /\ \E l \in call_log : l.input # caller /\ ~l.input.periodic_given

\* C10: a returned cell has one face per 3D face whose adjacent_cell is neither
\* -5 nor -6, in the order of the 3D face list and with adjacent_cell unchanged;
\* no returned face has adjacent_cell -5 or -6.
C10_SideFacesPassedThrough ==
    pc = "done" =>
        \A k \in 1..Len(returned) :
            LET faces2d == returned[k].faces
                to2d == [j \in 1..Len(faces2d) |-> faces2d[j].adjacent_cell]
                to3d == SelectSeq(FacesTo(py_cells3d[k]), LAMBDA a : a \notin {-5, -6})
            IN  /\ to2d = to3d
                /\ \A j \in 1..Len(faces2d) : faces2d[j].adjacent_cell \notin {-5, -6}

C10_Witness ==
    /\ pc = "done"
    /\ Len(returned) = 1
    /\ Len(returned[1].faces) = 2
    /\ returned[1].faces[1].adjacent_cell = 1
    /\ returned[1].faces[2].adjacent_cell = -1

====
